---- MODULE Spec2Model ----
(***************************************************************************)
(* A model of rharkor/utils (src/src/index.ts): the debounce wrapper and   *)
(* its timers, the chunk loop, times and the validating pure functions.   *)
(* The functions of the library are independent of each other, so each     *)
(* part has its own specification over the shared variables; the variables *)
(* a specification does not use stay at their initial value.               *)
(***************************************************************************)
EXTENDS Integers, Sequences, FiniteSets, TLC

VARIABLES
  \* debounce (index.ts 23-31) and the host's timer table
  timer,      \* wrapper -> the handle held by the closure's `timer` (0: undefined)
  pending,    \* the host's scheduled timers: records [id, w, args]
  handles,    \* number of handles setTimeout has handed out
  invoked,    \* the invocations of func so far: records [w, args]
  window,     \* history: wrapper -> arguments of the calls of the current window
  fired,      \* history: wrapper -> invocations of func since the window opened
  \* chunk (index.ts 205-213)
  array, size, i, result, chunk_pc,
  \* one call of one of the other functions
  fn,         \* the function called
  input,      \* its arguments, by parameter name
  pc,         \* "call": entered; "forEach": in the loop of times; "done": left
  funcCalls,  \* the invocations of the function passed to times
  output      \* how the call ended: [kind: "return" or "throw", value]

debVars   == <<timer, pending, handles, invoked, window, fired>>
chunkVars == <<array, size, i, result, chunk_pc>>
callVars  == <<fn, input, pc, funcCalls, output>>
vars      == <<debVars, chunkVars, callVars>>

Last(s) == s[Len(s)]

(***************************************************************************)
(* The state of a part of the library that a specification does not run.   *)
(***************************************************************************)
DebIdle ==
  /\ timer = <<>> /\ pending = {} /\ handles = 0
  /\ invoked = <<>> /\ window = <<>> /\ fired = <<>>
ChunkIdle ==
  /\ array = <<>> /\ size = 0 /\ i = 0 /\ result = <<>> /\ chunk_pc = "idle"
CallIdle ==
  /\ fn = "none" /\ input = <<>> /\ pc = "idle" /\ funcCalls = 0 /\ output = <<>>

(***************************************************************************)
(* debounce                                                                *)
(***************************************************************************)
NumWrappers == 2
MaxCalls == 4
MaxArg == 2
Wrappers == 1..NumWrappers
Args == 1..MaxArg

\* clearTimeout(h): the host drops the timer with handle h, if it is still
\* scheduled; an undefined, fired or cleared handle is ignored.
clearTimeout_ignored(p, h) == p
clearTimeout(p, h) == {t \in p : t.id # h}

\* setTimeout(cb, timeout): a fresh handle, the callback scheduled under it.
setTimeout(p, h, w, a) == p \cup {[id |-> h, w |-> w, args |-> a]}

\* `timer = setTimeout(...)`: the closure's slot takes the new handle.
assignTimer_dropped(old, new) == old
assignTimer(old, new) == new

PendingOf(w) == {t \in pending : t.w = w}

DebInit ==
  /\ timer = [w \in Wrappers |-> 0]
  /\ pending = {}
  /\ handles = 0
  /\ invoked = <<>>
  /\ window = [w \in Wrappers |-> <<>>]
  /\ fired = [w \in Wrappers |-> 0]

\* One call w(...args) of the wrapper returned by debounce (lines 25-30).
DebounceCall(w, a) ==
  /\ handles < MaxCalls
  /\ handles' = handles + 1
  /\ pending' = setTimeout(clearTimeout(pending, timer[w]), handles + 1, w, a)
  /\ timer' = [timer EXCEPT ![w] = assignTimer(timer[w], handles + 1)]
  /\ window' = [window EXCEPT ![w] =
                  IF PendingOf(w) = {} THEN <<a>> ELSE Append(window[w], a)]
  /\ fired' = [fired EXCEPT ![w] = IF PendingOf(w) = {} THEN 0 ELSE fired[w]]
  /\ UNCHANGED invoked

\* A scheduled timer expires: the host runs its callback, func.apply(this, args)
\* (lines 27-29). The host does not reset the closure's `timer`.
TimerFires(t) ==
  /\ t \in pending
  /\ pending' = pending \ {t}
  /\ invoked' = Append(invoked, [w |-> t.w, args |-> t.args])
  /\ fired' = [fired EXCEPT ![t.w] = fired[t.w] + 1]
  /\ UNCHANGED <<timer, handles, window>>

Call == \E w \in Wrappers, a \in Args : DebounceCall(w, a)
Fire == \E t \in pending : TimerFires(t)

DebNext ==
  \/ Call /\ UNCHANGED <<chunkVars, callVars>>
  \/ Fire /\ UNCHANGED <<chunkVars, callVars>>

InitDebounce == DebInit /\ ChunkIdle /\ CallIdle

SpecDebounce ==
  /\ InitDebounce
  /\ [][DebNext]_vars

InvokedOf(w) == SelectSeq(invoked, LAMBDA e : e.w = w)

\* C1: when a wrapper has been called k >= 1 times, each call before the timer
\* of the previous one fired, and its timer has then fired with no further
\* call, func has been invoked exactly once for those k calls, with the
\* arguments of the last of them; while the timer is pending, not at all.
C1_DebounceOnceWithLastArgs ==
  \A w \in Wrappers :
    /\ PendingOf(w) # {} => fired[w] = 0
    /\ (window[w] # <<>> /\ PendingOf(w) = {}) =>
         /\ fired[w] = 1
         /\ InvokedOf(w) # <<>>
         /\ Last(InvokedOf(w)).args = Last(window[w])

C1_Witness ==
  \E w \in Wrappers :
    /\ Len(window[w]) >= 3
    /\ PendingOf(w) = {}
    /\ fired[w] = 1
    /\ window[w][1] # Last(window[w])

\* C2: a wrapper never has more than one pending timer.
C2_AtMostOnePendingTimer ==
  \A w \in Wrappers : Cardinality(PendingOf(w)) <= 1

C2_Witness ==
  \E w \in Wrappers :
    /\ Len(window[w]) >= 2
    /\ Cardinality(PendingOf(w)) = 1
    /\ InvokedOf(w) # <<>>

(***************************************************************************)
(* chunk                                                                   *)
(***************************************************************************)
MaxLen == 3
MaxElem == 2
MinSize == 2
MaxSize == 3
MaxHeap == 5

Min(a, b) == IF a < b THEN a ELSE b
Max(a, b) == IF a > b THEN a ELSE b

SeqsUpTo(S, n) == UNION {[1..k -> S] : k \in 0..n}

\* Array.prototype.slice(start, end) with 0-based bounds: a negative bound
\* counts from the end, both are clamped to [0, length], and the result is
\* the elements start .. end-1 (none when end <= start).
RelIndex(a, k) == IF k < 0 THEN Max(Len(a) + k, 0) ELSE Min(k, Len(a))
slice(a, start, end) ==
  LET from == RelIndex(a, start)
      to == RelIndex(a, end)
  IN  IF to <= from THEN <<>> ELSE SubSeq(a, from + 1, to)

\* array.slice(i, i + size) (line 209)
chunkSlice_short(a, k, n) == slice(a, k, k + n - 1)
chunkSlice(a, k, n) == slice(a, k, k + n)

ChunkInit ==
  /\ array \in SeqsUpTo(1..MaxElem, MaxLen)
  /\ size \in (0 - MinSize)..MaxSize
  /\ i = 0
  /\ result = <<>>
  /\ chunk_pc = "loop"

\* One iteration of `for (let i = 0; i < array.length; i += size)`.
ChunkIterate ==
  /\ chunk_pc = "loop"
  /\ i < Len(array)
  /\ Len(result) < MaxHeap
  /\ result' = Append(result, chunkSlice(array, i, size))
  /\ i' = i + size
  /\ UNCHANGED <<array, size, chunk_pc>>

\* The loop condition fails: `return result`.
ChunkReturn ==
  /\ chunk_pc = "loop"
  /\ i >= Len(array)
  /\ chunk_pc' = "done"
  /\ UNCHANGED <<array, size, i, result>>

\* result.push on a host that has no memory left for the array: the call is
\* aborted and returns nothing.
ChunkOutOfMemory ==
  /\ chunk_pc = "loop"
  /\ i < Len(array)
  /\ Len(result) >= MaxHeap
  /\ chunk_pc' = "aborted"
  /\ UNCHANGED <<array, size, i, result>>

ChunkNext ==
  \/ ChunkIterate /\ UNCHANGED <<debVars, callVars>>
  \/ ChunkReturn /\ UNCHANGED <<debVars, callVars>>
  \/ ChunkOutOfMemory /\ UNCHANGED <<debVars, callVars>>

InitChunk == ChunkInit /\ DebIdle /\ CallIdle

SpecChunk ==
  /\ InitChunk
  /\ [][ChunkNext]_vars

RECURSIVE Flatten(_)
Flatten(ss) == IF ss = <<>> THEN <<>> ELSE Head(ss) \o Flatten(Tail(ss))

\* C3: for size >= 1 the chunks returned concatenate, in order, to the array;
\* every chunk but the last has exactly size elements, the last has between 1
\* and size, and an empty array gives no chunk.
C3_ChunkPartitions ==
  (chunk_pc = "done" /\ size >= 1) =>
    /\ Flatten(result) = array
    /\ \A k \in 1..(Len(result) - 1) : Len(result[k]) = size
    /\ result # <<>> => Len(Last(result)) \in 1..size
    /\ array = <<>> => result = <<>>

C3_Witness ==
  /\ chunk_pc = "done"
  /\ size = 2
  /\ Len(array) = 3
  /\ Len(result) = 2
  /\ Len(Last(result)) = 1

\* C10: chunk terminates for every array and every integer size, 0 and the
\* negative sizes included. The loop leaves only when i >= array.length, the
\* array is not changed and i moves by the constant size, so the loop over a
\* non-empty array reaches the end exactly when every iteration moves i
\* towards it.
C10_ChunkLoopReachesEnd ==
  [][ChunkIterate => i' > i]_vars

(***************************************************************************)
(* JavaScript values, as far as the validations of the library tell them   *)
(* apart. A number q / Den is held as the integer q; strings and arrays    *)
(* are sequences of one-character strings.                                 *)
(***************************************************************************)
Den == 2
MaxNum == 3
MaxStr == 3

V(t, n, s) == [t |-> t, n |-> n, s |-> s]
Undefined == V("undefined", 0, <<>>)
Null == V("null", 0, <<>>)
NaN == V("NaN", 0, <<>>)
Num(q) == V("number", q, <<>>)
Whole(k) == Num(k * Den)
Str(s) == V("string", 0, s)
StrObj(s) == V("String", 0, s)
Arr(s) == V("array", 0, s)
Func == V("function", 0, <<>>)
Obj == V("object", 0, <<>>)
PromiseOfUndefined == V("promise", 0, <<>>)

Nums == {Num(q) : q \in (0 - MaxNum * Den)..(MaxNum * Den)}

Returns(v) == [kind |-> "return", value |-> v]
Throws(e) == [kind |-> "throw", value |-> Str(<<e>>)]

IsInteger(v) == v.t = "number" /\ v.n % Den = 0
Floor(q) == q \div Den
Ceil(q) == 0 - ((0 - q) \div Den)
Trunc(q) == IF q >= 0 THEN Floor(q) ELSE Ceil(q)

\* typeof text === "string" || text instanceof String
IsStringLike(v) == v.t \in {"string", "String"}

IsBlank(s) == \A k \in 1..Len(s) : s[k] = " "

\* ToNumber, the coercion inside isNaN, Math.ceil, Math.floor, <= and slice.
\* The strings of the model hold no digit, so a string is 0 when it is blank
\* and NaN otherwise; an array converts as its join(",").
ToNumber(v) ==
  CASE v.t = "number" -> v
    [] v.t = "null" -> Num(0)
    [] v.t \in {"string", "String"} -> IF IsBlank(v.s) THEN Num(0) ELSE NaN
    [] v.t = "array" -> IF Len(v.s) = 0 \/ (Len(v.s) = 1 /\ v.s[1] = " ")
                        THEN Num(0) ELSE NaN
    [] OTHER -> NaN

isNaN(v) == ToNumber(v) = NaN

\* A parameter with a default takes it when the argument is undefined.
Default(v, d) == IF v = Undefined THEN d ELSE v

\* Array(n): a number must be a valid array length (an integer in
\* [0, 2^32 - 1], which lies beyond the numbers of the model) or a RangeError
\* is thrown; any other value gives the one-element array [n].
ArrayLengthOf(v) ==
  IF v.t = "number" THEN (IF IsInteger(v) /\ v.n >= 0 THEN v.n \div Den ELSE 0 - 1)
  ELSE IF v.t = "NaN" THEN 0 - 1
  ELSE 1

(***************************************************************************)
(* times                                                                   *)
(***************************************************************************)
TimesInputs ==
  [times : Nums \cup {NaN, Undefined, Null, Str(<<"a">>), Str(<<>>), Arr(<<>>)},
   func : {Func, Undefined, Str(<<"a">>), Obj}]

\* The validation of times (lines 48-55).
timesRejects_nothing(n, f) == FALSE
timesRejects(n, f) == isNaN(n) \/ f.t # "function"

\* Lines 48-56 up to the forEach: the two validations, then Array(times).
TimesEnter ==
  /\ fn = "times" /\ pc = "call"
  /\ IF timesRejects(input.times, input.func)
     THEN pc' = "done" /\ output' = Returns(Undefined)
     ELSE IF ArrayLengthOf(input.times) < 0
     THEN pc' = "done" /\ output' = Throws("RangeError")
     ELSE pc' = "forEach" /\ UNCHANGED output
  /\ UNCHANGED <<fn, input, funcCalls>>

\* One turn of forEach: func() (line 57).
TimesInvoke ==
  /\ fn = "times" /\ pc = "forEach"
  /\ funcCalls < ArrayLengthOf(input.times)
  /\ funcCalls' = funcCalls + 1
  /\ UNCHANGED <<fn, input, pc, output>>

\* forEach has visited every element: times returns nothing.
TimesReturn ==
  /\ fn = "times" /\ pc = "forEach"
  /\ funcCalls = ArrayLengthOf(input.times)
  /\ pc' = "done" /\ output' = Returns(Undefined)
  /\ UNCHANGED <<fn, input, funcCalls>>

(***************************************************************************)
(* getRandomNumberInRange                                                  *)
(***************************************************************************)
RandomSteps == 4

RandomInputs ==
  [lower : Nums \cup {NaN, Undefined, Null, Str(<<"a">>)},
   upper : Nums \cup {NaN, Undefined, Func}]

randomRejects(lo, up) == isNaN(lo) \/ isNaN(up)

\* Lines 67-75, with Math.random() = r / RandomSteps.
getRandomNumberInRange(lo, up, r) ==
  LET lower0 == Default(lo, Whole(0))
      upper0 == Default(up, Whole(10))
  IN  IF randomRejects(lower0, upper0) THEN Returns(Undefined)
      ELSE LET lower == Ceil(ToNumber(lower0).n)
               upper == Floor(ToNumber(upper0).n)
           IN  Returns(Whole(((r * (upper - lower + 1)) \div RandomSteps) + lower))

(***************************************************************************)
(* Characters and strings                                                  *)
(***************************************************************************)
LowerLetters == {"a", "b"}
UpperLetters == {"A", "B"}
toLowerChar(c) == CASE c = "A" -> "a" [] c = "B" -> "b" [] OTHER -> c
toUpperChar(c) == CASE c = "a" -> "A" [] c = "b" -> "B" [] OTHER -> c
toLowerCase(s) == [k \in 1..Len(s) |-> toLowerChar(s[k])]
toUpperCase(s) == [k \in 1..Len(s) |-> toUpperChar(s[k])]
\* \w of a regular expression (the model's strings hold no digit)
IsWordChar(c) == c \in LowerLetters \cup UpperLetters \cup {"_"}

\* String.prototype.replace(c, "") with a string pattern: the first
\* occurrence only.
RECURSIVE removeFirst(_, _)
removeFirst(s, c) ==
  IF s = <<>> THEN <<>>
  ELSE IF Head(s) = c THEN Tail(s)
  ELSE <<Head(s)>> \o removeFirst(Tail(s), c)

(***************************************************************************)
(* shorten                                                                 *)
(***************************************************************************)
InvalidTexts == {Undefined, Null, NaN, Whole(1), Arr(<<"a">>), Func, Obj}

ShortenInputs ==
  [text : {Str(s) : s \in SeqsUpTo({"a", "b"}, MaxStr)}
          \cup {StrObj(<<"a", "b">>)} \cup InvalidTexts,
   length : {Undefined, NaN, Null, Str(<<"a">>), Whole(0), Whole(1), Num(3), Whole(2),
             Whole(0 - 1)},
   ellipsisCount : {Undefined, NaN, Obj, Null, Whole(0), Whole(2), Num(1), Whole(0 - 1)}]

\* Lines 84-105.
shorten(text, length0, ellipsisCount0) ==
  LET length == Default(length0, Whole(10))
      ellipsisCount == Default(ellipsisCount0, Whole(3))
  IN  IF ~IsStringLike(text) THEN Returns(Str(<<>>))
      ELSE IF isNaN(length) \/ isNaN(ellipsisCount) THEN Returns(Undefined)
      ELSE IF Len(text.s) * Den <= ToNumber(length).n THEN Returns(text)
      ELSE IF ArrayLengthOf(ellipsisCount) < 0 THEN Throws("RangeError")
      ELSE Returns(Str(slice(text.s, 0, Trunc(ToNumber(length).n))
                       \o [k \in 1..ArrayLengthOf(ellipsisCount) |-> "."]))

(***************************************************************************)
(* removeDuplicates                                                        *)
(***************************************************************************)
DedupInputs ==
  [arr : {Arr(s) : s \in SeqsUpTo({"a", "b", "c"}, MaxStr + 1)}
         \cup {Undefined, Null, Str(<<"a", "a">>), Obj, Whole(1)}]

InSeq(x, s) == \E k \in 1..Len(s) : s[k] = x

\* Set.prototype.add: a value the set holds already is not added again, a new
\* one goes to the end of the insertion order.
setAdd_always(set, x) == Append(set, x)
setAdd(set, x) == IF InSeq(x, set) THEN set ELSE Append(set, x)

\* new Set(arr): the elements added in array order; [...set] lists them in
\* insertion order.
RECURSIVE newSet(_, _)
newSet(set, arr) ==
  IF arr = <<>> THEN set ELSE newSet(setAdd(set, Head(arr)), Tail(arr))

\* Lines 112-118.
removeDuplicates(arr) ==
  IF arr.t # "array" THEN Returns(Undefined)
  ELSE Returns(Arr(newSet(<<>>, arr.s)))

(***************************************************************************)
(* measureTime                                                             *)
(***************************************************************************)
MeasureInputs == [func : {Func, Undefined, Null, Str(<<"a">>), Obj, Whole(1)}]

measureTimeRejects(f) == f.t # "function"

(***************************************************************************)
(* slugify, camelToSnakeCase, snakeToCamelCase                             *)
(***************************************************************************)
SlugInputs ==
  [text : {Str(s) : s \in SeqsUpTo({"a", "A", " ", "!", "-"}, MaxStr)}
          \cup {StrObj(<<"A", " ">>)} \cup InvalidTexts]

\* Lines 140-149.
slugify_noResult(text) == Returns(Undefined)
slugify(text) ==
  IF ~IsStringLike(text) THEN Returns(text)
  ELSE LET lower == toLowerCase(text.s)
           dashed == [k \in 1..Len(lower) |-> IF lower[k] = " " THEN "-" ELSE lower[k]]
       IN  Returns(Str(SelectSeq(dashed, LAMBDA c : IsWordChar(c) \/ c = "-")))

CaseInputs ==
  [text : {Str(s) : s \in SeqsUpTo({"a", "b", "A", "_", "-"}, MaxStr)}
          \cup {StrObj(<<"a", "_", "b">>)} \cup InvalidTexts]

\* text.replace(/[A-Z]/g, (letter) => `_${letter.toLowerCase()}`) (line 161)
RECURSIVE camelReplace(_)
camelReplace(s) ==
  IF s = <<>> THEN <<>>
  ELSE (IF Head(s) \in UpperLetters THEN <<"_", toLowerChar(Head(s))>> ELSE <<Head(s)>>)
       \o camelReplace(Tail(s))

\* Lines 156-162.
camelToSnakeCase(text) ==
  IF ~IsStringLike(text) THEN Returns(text)
  ELSE Returns(Str(camelReplace(text.s)))

\* The replacer of line 176-177:
\* group.toUpperCase().replace("-", "").replace("_", "")
snakeGroup_keepsSeparator(group) == toUpperCase(group)
snakeGroup(group) == removeFirst(removeFirst(toUpperCase(group), "-"), "_")

\* replace(/([-_][a-z])/g, replacer): the matches are taken left to right
\* and do not overlap.
RECURSIVE snakeReplace(_)
snakeReplace(s) ==
  IF s = <<>> THEN <<>>
  ELSE IF Len(s) >= 2 /\ s[1] \in {"-", "_"} /\ s[2] \in LowerLetters
       THEN snakeGroup(SubSeq(s, 1, 2)) \o snakeReplace(SubSeq(s, 3, Len(s)))
       ELSE <<Head(s)>> \o snakeReplace(Tail(s))

\* Lines 169-179.
snakeToCamelCase(text) ==
  IF ~IsStringLike(text) THEN Returns(text)
  ELSE Returns(Str(snakeReplace(toLowerCase(text.s))))

(***************************************************************************)
(* stringToColor                                                           *)
(***************************************************************************)
ColorInputs ==
  [text : {Str(s) : s \in SeqsUpTo({"a", "B", " "}, MaxStr)}
          \cup {StrObj(<<"a">>)} \cup InvalidTexts]

charCodeAt(c) ==
  CASE c = "a" -> 97 [] c = "b" -> 98 [] c = "c" -> 99 [] c = "A" -> 65 [] c = "B" -> 66
    [] c = "_" -> 95 [] c = "-" -> 45 [] c = " " -> 32 [] c = "!" -> 33

\* hash = text.charCodeAt(i) + ((hash << 5) - hash), left to right (lines
\* 193-196). The strings of the model are short enough for the hash to stay
\* below 2^31, where << and - do not wrap.
RECURSIVE colorHash(_, _)
colorHash(hash, s) ==
  IF s = <<>> THEN hash
  ELSE colorHash(charCodeAt(Head(s)) + ((hash * 32) - hash), Tail(s))

HexDigits == <<"0", "1", "2", "3", "4", "5", "6", "7", "8", "9",
               "a", "b", "c", "d", "e", "f">>
\* `00${value.toString(16)}`.substr(-2) for a byte
hexByte(value) == <<HexDigits[(value \div 16) + 1], HexDigits[(value % 16) + 1]>>
\* (hash >> (i * 8)) & 0xff for a hash that is not negative
byteOf(hash, k) == (hash \div (256 ^ k)) % 256

\* Lines 188-203.
stringToColor(text) ==
  IF ~IsStringLike(text) THEN Returns(text)
  ELSE LET hash == colorHash(0, text.s)
       IN  Returns(Str(<<"#">> \o hexByte(byteOf(hash, 0)) \o hexByte(byteOf(hash, 1))
                       \o hexByte(byteOf(hash, 2))))

(***************************************************************************)
(* getTimeBetween. A time in milliseconds is held as whole seconds s and   *)
(* milliseconds ms in 0..999, since a year of milliseconds does not fit a  *)
(* 32-bit integer.                                                         *)
(***************************************************************************)
MaxCount == 2

Ms(s, ms) == [s |-> s, ms |-> ms]

\* Math.abs(firstDate.getTime() - secondDate.getTime()) (line 215)
timeDiff(a, b) ==
  LET later == IF a.s > b.s \/ (a.s = b.s /\ a.ms >= b.ms) THEN a ELSE b
      earlier == IF later = a THEN b ELSE a
  IN  IF later.ms >= earlier.ms
      THEN Ms(later.s - earlier.s, later.ms - earlier.ms)
      ELSE Ms(later.s - earlier.s - 1, later.ms + 1000 - earlier.ms)

\* The intervals of lines 218-225, in seconds.
intervals ==
  [year |-> 36525 * 864,   \* 365.25 * 24 * 60 * 60
   month |-> 3044 * 864,   \* 30.44 * 24 * 60 * 60
   day |-> 24 * 60 * 60,
   hour |-> 60 * 60,
   minute |-> 60,
   second |-> 1]

\* The intervals are doubles. 365.25 * 24 * 60 * 60 * 1000 and the products of
\* integers are exact. 30.44 * 24 is rounded to 730.5600000000001, and the
\* product 30.44 * 24 * 60 * 60 * 1000 comes out as 2630016000.0000005: one
\* unit in the last place (2^-21 ms) above 2630016000.
roundedUp == {"month"}

\* Math.floor(timeDiff / intervals[unit]) (lines 229-234). For an interval of
\* U ms exactly this is floor(d / U). For one of U + 2^-21 ms the quotient
\* stays below k until d exceeds k * U (k < 2^21), so it is floor((d - 1) / U)
\* for d >= 1.
elapsed(d, unit) ==
  IF unit \in roundedUp
  THEN (IF d.ms >= 1 THEN d.s ELSE IF d.s >= 1 THEN d.s - 1 ELSE 0) \div intervals[unit]
  ELSE d.s \div intervals[unit]

\* Lines 238-258.
timeUnit(d) ==
  IF elapsed(d, "year") > 0 THEN "year"
  ELSE IF elapsed(d, "month") > 0 THEN "month"
  ELSE IF elapsed(d, "day") > 0 THEN "day"
  ELSE IF elapsed(d, "hour") > 0 THEN "hour"
  ELSE IF elapsed(d, "minute") > 0 THEN "minute"
  ELSE "second"

\* `${timeValue} ${timeUnit}${timeValue !== 1 ? "s" : ""}` (line 261)
formatElapsed(value, unit) ==
  ToString(value) \o " " \o unit \o (IF value # 1 THEN "s" ELSE "")

\* A string that is never taken apart is held whole.
Text(t) == Str(<<t>>)

\* Lines 213-262.
getTimeBetween(firstDate, secondDate) ==
  LET d == timeDiff(firstDate, secondDate)
  IN  Returns(Text(formatElapsed(elapsed(d, timeUnit(d)), timeUnit(d))))

UnitNames == {"year", "month", "day", "hour", "minute", "second"}

\* Instants on, one millisecond before and one millisecond after the
\* multiples of every unit, and 0 s, 0.999 s and 90 s.
Instants ==
  UNION {{Ms(k * intervals[u] - 1, 999), Ms(k * intervals[u], 0), Ms(k * intervals[u], 1)} :
           u \in UnitNames, k \in 1..MaxCount}
  \cup {Ms(0, 0), Ms(90, 0)}

TimeInputs == [firstDate : Instants, secondDate : Instants]

(***************************************************************************)
(* The calls: a function and its arguments are chosen at the start, the    *)
(* call then runs to its end.                                              *)
(***************************************************************************)
CallInit ==
  /\ \/ fn = "times" /\ input \in TimesInputs
     \/ fn = "getRandomNumberInRange" /\ input \in RandomInputs
     \/ fn = "shorten" /\ input \in ShortenInputs
     \/ fn = "removeDuplicates" /\ input \in DedupInputs
     \/ fn = "measureTime" /\ input \in MeasureInputs
     \/ fn = "slugify" /\ input \in SlugInputs
     \/ fn \in {"camelToSnakeCase", "snakeToCamelCase"} /\ input \in CaseInputs
     \/ fn = "stringToColor" /\ input \in ColorInputs
     \/ fn = "getTimeBetween" /\ input \in TimeInputs
  /\ pc = "call"
  /\ funcCalls = 0
  /\ output = [kind |-> "running", value |-> Undefined]

Finish(out) ==
  /\ pc = "call"
  /\ pc' = "done"
  /\ output' = out
  /\ UNCHANGED <<fn, input, funcCalls>>

CallRandom ==
  /\ fn = "getRandomNumberInRange"
  /\ \E r \in 0..(RandomSteps - 1) :
       Finish(getRandomNumberInRange(input.lower, input.upper, r))

CallShorten ==
  /\ fn = "shorten"
  /\ Finish(shorten(input.text, input.length, input.ellipsisCount))

CallRemoveDuplicates ==
  /\ fn = "removeDuplicates"
  /\ Finish(removeDuplicates(input.arr))

\* measureTime (lines 125-133): an async function, so every call returns a
\* promise; it resolves to undefined after the validation has failed, or
\* after console.time, one call of func and console.timeEnd.
CallMeasureTime ==
  /\ fn = "measureTime" /\ pc = "call"
  /\ pc' = "done"
  /\ output' = Returns(PromiseOfUndefined)
  /\ funcCalls' = IF measureTimeRejects(input.func) THEN funcCalls ELSE funcCalls + 1
  /\ UNCHANGED <<fn, input>>

CallSlugify ==
  /\ fn = "slugify"
  /\ Finish(slugify(input.text))

CallCamelToSnakeCase ==
  /\ fn = "camelToSnakeCase"
  /\ Finish(camelToSnakeCase(input.text))

CallSnakeToCamelCase ==
  /\ fn = "snakeToCamelCase"
  /\ Finish(snakeToCamelCase(input.text))

CallStringToColor ==
  /\ fn = "stringToColor"
  /\ Finish(stringToColor(input.text))

CallGetTimeBetween ==
  /\ fn = "getTimeBetween"
  /\ Finish(getTimeBetween(input.firstDate, input.secondDate))

CallNext ==
  \/ TimesEnter /\ UNCHANGED <<debVars, chunkVars>>
  \/ TimesInvoke /\ UNCHANGED <<debVars, chunkVars>>
  \/ TimesReturn /\ UNCHANGED <<debVars, chunkVars>>
  \/ CallRandom /\ UNCHANGED <<debVars, chunkVars>>
  \/ CallShorten /\ UNCHANGED <<debVars, chunkVars>>
  \/ CallRemoveDuplicates /\ UNCHANGED <<debVars, chunkVars>>
  \/ CallMeasureTime /\ UNCHANGED <<debVars, chunkVars>>
  \/ CallSlugify /\ UNCHANGED <<debVars, chunkVars>>
  \/ CallCamelToSnakeCase /\ UNCHANGED <<debVars, chunkVars>>
  \/ CallSnakeToCamelCase /\ UNCHANGED <<debVars, chunkVars>>
  \/ CallStringToColor /\ UNCHANGED <<debVars, chunkVars>>
  \/ CallGetTimeBetween /\ UNCHANGED <<debVars, chunkVars>>

InitCalls == CallInit /\ DebIdle /\ ChunkIdle

SpecCalls ==
  /\ InitCalls
  /\ [][CallNext]_vars

\* C4: times invokes func exactly n times for every number n that is not NaN
\* when func is a function, and otherwise invokes it zero times and returns
\* nothing.
C4_TimesInvokesNTimes ==
  (fn = "times" /\ pc = "done" /\ input.times.t \in {"number", "NaN"}) =>
    IF input.times.t = "number" /\ input.func.t = "function"
    THEN output = Returns(Undefined) /\ funcCalls * Den = input.times.n
    ELSE output = Returns(Undefined) /\ funcCalls = 0

\* C6: for numeric bounds, every value getRandomNumberInRange returns is an
\* integer r with ceil(lower) <= r <= floor(upper).
C6_RandomWithinBounds ==
  (/\ fn = "getRandomNumberInRange" /\ pc = "done"
   /\ input.lower.t = "number" /\ input.upper.t = "number") =>
    /\ output.kind = "return"
    /\ IsInteger(output.value)
    /\ Ceil(input.lower.n) * Den <= output.value.n
    /\ output.value.n <= Floor(input.upper.n) * Den

\* C7: getTimeBetween returns "<count> <unit>" where the unit is the largest
\* of year (365.25 days), month (30.44 days), day, hour, minute and second
\* whose whole count in the difference is not zero (second when all are), the
\* count is that whole count, and "s" follows exactly when the count is not 1.
ClaimedCount(d, u) == d.s \div intervals[u]
ClaimedUnit(d) ==
  IF \A u \in UnitNames : ClaimedCount(d, u) = 0 THEN "second"
  ELSE CHOOSE u \in UnitNames :
         /\ ClaimedCount(d, u) # 0
         /\ \A v \in UnitNames : ClaimedCount(d, v) # 0 => intervals[v] <= intervals[u]
ClaimedText(d) ==
  LET count == ClaimedCount(d, ClaimedUnit(d))
  IN  ToString(count) \o " " \o ClaimedUnit(d) \o (IF count = 1 THEN "" ELSE "s")
C7_TimeBetweenLargestUnit ==
  (fn = "getTimeBetween" /\ pc = "done") =>
    /\ output = Returns(Text(ClaimedText(timeDiff(input.firstDate, input.secondDate))))
    /\ timeDiff(input.firstDate, input.secondDate) = Ms(90, 0) =>
         output = Returns(Text("1 minute"))
    /\ input.firstDate = input.secondDate => output = Returns(Text("0 seconds"))

\* The validation of the called function turns its arguments away.
Rejected ==
  CASE fn = "times" -> timesRejects(input.times, input.func)
    [] fn = "getRandomNumberInRange" ->
         randomRejects(Default(input.lower, Whole(0)), Default(input.upper, Whole(10)))
    [] fn = "shorten" ->
         \/ ~IsStringLike(input.text)
         \/ isNaN(Default(input.length, Whole(10)))
         \/ isNaN(Default(input.ellipsisCount, Whole(3)))
    [] fn = "removeDuplicates" -> input.arr.t # "array"
    [] fn = "measureTime" -> measureTimeRejects(input.func)
    [] fn \in {"slugify", "camelToSnakeCase", "snakeToCamelCase", "stringToColor"} ->
         ~IsStringLike(input.text)
    [] OTHER -> FALSE

ReturnedOnReject ==
  CASE fn \in {"times", "getRandomNumberInRange", "removeDuplicates"} -> Undefined
    [] fn = "measureTime" -> PromiseOfUndefined
    [] fn = "shorten" -> IF ~IsStringLike(input.text) THEN Str(<<>>) ELSE Undefined
    [] OTHER -> input.text
IsIdentifier(s, separators) ==
  /\ \A k \in 1..Len(s) : s[k] \in LowerLetters \cup separators
  /\ \A k \in 1..(Len(s) - 1) : ~(s[k] \in separators /\ s[k + 1] \in separators)

\* C8, as stated: camelToSnakeCase(snakeToCamelCase(s)) = s for every
\* identifier s of lowercase letters and single separators '_' or '-'.
C8_RoundTripBothSeparators ==
  (/\ fn = "snakeToCamelCase" /\ pc = "done"
   /\ input.text.t = "string" /\ IsIdentifier(input.text.s, {"_", "-"})) =>
    /\ output.kind = "return"
    /\ camelToSnakeCase(output.value) = Returns(input.text)

\* C8, amended: camelToSnakeCase(snakeToCamelCase(s)) = s for every
\* identifier s of lowercase letters and single '_' separators.
C8_RoundTripUnderscore ==
  (/\ fn = "snakeToCamelCase" /\ pc = "done"
   /\ input.text.t = "string" /\ IsIdentifier(input.text.s, {"_"})) =>
    /\ output.kind = "return"
    /\ camelToSnakeCase(output.value) = Returns(input.text)

C8_Witness ==
  /\ fn = "snakeToCamelCase" /\ pc = "done"
  /\ input.text = Str(<<"a", "_", "b">>)
  /\ output = Returns(Str(<<"a", "B">>))

FirstIndex(x, s) == CHOOSE k \in 1..Len(s) : s[k] = x /\ \A j \in 1..(k - 1) : s[j] # x

\* C9: removeDuplicates(arr) returns an array without a repeated element that
\* holds every distinct value of arr, in the order of their first occurrence
\* in arr, and leaves arr as it was.
C9_RemoveDuplicates ==
  [][(CallRemoveDuplicates /\ input.arr.t = "array") =>
       /\ input' = input
       /\ output'.kind = "return" /\ output'.value.t = "array"
       /\ LET arr == input.arr.s
              out == output'.value.s
          IN  /\ \A j, k \in 1..Len(out) : out[j] = out[k] => j = k
              /\ {out[k] : k \in 1..Len(out)} = {arr[k] : k \in 1..Len(arr)}
              /\ \A j, k \in 1..Len(out) :
                   j < k => FirstIndex(out[j], arr) < FirstIndex(out[k], arr)]_vars

C9_Witness ==
  /\ fn = "removeDuplicates" /\ pc = "done"
  /\ input.arr = Arr(<<"b", "a", "b", "c">>)
  /\ output = Returns(Arr(<<"b", "a", "c">>))

====
